---- MODULE Spec2Model ----
(***************************************************************************)
(* The build pipeline of the blog: Markdown nodes are sourced, the page    *)
(* builder (exports.createPages) binds one page per query edge, and the    *)
(* presentation components (listing, post template, layout) and the feed   *)
(* serializer render the site from their own queries.                      *)
(*                                                                         *)
(* The repository holds several versions of the listing and of the post    *)
(* template; a build's output is recorded for each of them, keyed by the   *)
(* file of the version.                                                    *)
(*                                                                         *)
(* Every Post of the model has a slug and a date; the title, the hero and  *)
(* the pageScripts may be absent (GraphQL then returns null).              *)
(***************************************************************************)
EXTENDS Integers, Sequences, FiniteSets, TLC

VARIABLES
    nodes,      \* the Markdown nodes, in the order they were discovered
    gitCommit,  \* the build-metadata record (latest commit)
    pc,         \* "sourced" | "created" | "built" | "panicked"
    errors,     \* result.errors of the page builder's query in this build
    calls,      \* the createPage calls of this build, in call order
    pages,      \* the framework's page registry: path -> binding
    panics,     \* the reporter.panicOnBuild messages of this build
    index,      \* listing version -> the cards of the index page
    html,       \* post template version -> path -> rendered page
    feed,       \* the items of /rss.xml
    last,       \* the previous completed build: its inputs and its output
    theme,      \* the theme the ThemeToggler of the layout holds in the browser
    clicked     \* the themes held before each of the last two clicks

vars == <<nodes, gitCommit, pc, errors, calls, pages, panics, index, html, feed, last,
          theme, clicked>>

(***************************************************************************)
(* Bounds and program constants                                            *)
(***************************************************************************)
\* most Markdown files taken from the corpus into one content directory
MaxPosts == 3

\* most files of the corpus in a content directory that also holds the
\* generated files
MaxLead == 2

\* limit: 1000 of the page builder's and of the listing's query
QueryLimit == 1000

\* hash.substr(0, 7) in the layout footer
HashChars == 7

Null == "null"

siteUrl == "https://avwie.github.io"

SiteTitle == "avwie's programming blog"

Min(a, b) == IF a < b THEN a ELSE b

(***************************************************************************)
(* Content: Markdown files with frontmatter                                *)
(***************************************************************************)
\* an absent list (GraphQL null) and a present one
NoList == [null |-> TRUE, list |-> <<>>]

List(s) == [null |-> FALSE, list |-> s]

MarkdownNode(id, slug, date, title, hero, pageScripts, timeToRead) ==
    [id |-> id,
     frontmatter |-> [slug |-> slug, date |-> date, title |-> title,
                      hero |-> hero, pageScripts |-> pageScripts],
     html |-> "<html of " \o id \o ">",
     timeToRead |-> timeToRead]

\* Five files: two pairs share a slug, two pairs share a date, one has no
\* title and one an empty title, two have no hero, two have no pageScripts and
\* one has an empty list.
Corpus ==
    { MarkdownNode("f1.md", "/a", 20210101, "A", "a.jpg", NoList, 3),
      MarkdownNode("f2.md", "/b", 20230101, "B", Null,
                   List(<<[src |-> "/s1.js", async |-> TRUE],
                          [src |-> "/s2.js"]>>), 5),
      MarkdownNode("f3.md", "/c", 20220101, Null, "c.jpg", List(<<>>), 1),
      MarkdownNode("f4.md", "/a", 20220101, "A2", Null,
                   List(<<[src |-> "/s3.js", defer |-> TRUE]>>), 2),
      MarkdownNode("f5.md", "/b", 20230101, "", "e.jpg", NoList, 4) }

\* the sequences of at most n pairwise different files of the corpus
RECURSIVE Directories(_)
Directories(n) ==
    IF n = 0 THEN {<<>>}
    ELSE LET shorter == Directories(n - 1)
         IN  shorter \cup
             { Append(d, f) : d \in {s \in shorter : Len(s) = n - 1},
                              f \in Corpus }

Injective(d) == \A i, j \in DOMAIN d : d[i].id = d[j].id => i = j

ContentDirectories(n) == {d \in Directories(n) : Injective(d)}

\* generated files with pairwise different slugs and one common date
BulkNode(i) ==
    MarkdownNode("bulk-" \o ToString(i) \o ".md", "/bulk-" \o ToString(i),
                 20220101, "Bulk", Null, NoList, 1)

BulkNodes(n) == [i \in 1..n |-> BulkNode(i)]

HeadCommit ==
    [hash |-> <<"a", "1", "b", "2", "c", "3", "d", "4", "e">>,
     date |-> "2025-05-11"]

Commits ==
    { HeadCommit,
      [hash |-> <<"f", "0", "0", "d">>,
       date |-> "2025-05-12"] }

(***************************************************************************)
(* The content queries                                                     *)
(***************************************************************************)
\* sort: { order: DESC, fields: [frontmatter___date] }: by date, latest
\* first; nodes of one date keep the order they were discovered in
RECURSIVE SortByDateDesc(_)
SortByDateDesc(ns) ==
    IF ns = <<>> THEN <<>>
    ELSE LET dates  == {ns[i].frontmatter.date : i \in DOMAIN ns}
             latest == CHOOSE d \in dates : \A e \in dates : e <= d
             IsLatest(n) == n.frontmatter.date = latest
             IsOlder(n)  == n.frontmatter.date # latest
         IN  SelectSeq(ns, IsLatest) \o SortByDateDesc(SelectSeq(ns, IsOlder))

\* limit: n
Limit(s, n) == SubSeq(s, 1, Min(n, Len(s)))

\* a selection that keeps every attribute of the entries
SelectWhole(pageScripts) == pageScripts

\* pageScripts { src }
SelectSrc(pageScripts) ==
    IF pageScripts.null THEN NoList
    ELSE List([i \in DOMAIN pageScripts.list |->
                  [src |-> pageScripts.list[i].src]])

\* the page builder's query with a limit one below the listing's
CreatePagesQueryLowerLimit(ns) ==
    LET found == Limit(SortByDateDesc(ns), QueryLimit - 1)
    IN  [i \in DOMAIN found |->
            [node |-> [frontmatter |->
                [slug |-> found[i].frontmatter.slug,
                 pageScripts |-> SelectSrc(found[i].frontmatter.pageScripts)]]]]

\* the page builder's query
CreatePagesQuery(ns) ==
    LET found == Limit(SortByDateDesc(ns), QueryLimit)
    IN  [i \in DOMAIN found |->
            [node |-> [frontmatter |->
                [slug |-> found[i].frontmatter.slug,
                 pageScripts |-> SelectSrc(found[i].frontmatter.pageScripts)]]]]

(***************************************************************************)
(* The page builder                                                        *)
(***************************************************************************)
postTemplate == "./src/templates/post.js"

\* a createPage call whose context leaves the pageScripts out
createPageNoScripts(node) ==
    [path |-> node.frontmatter.slug,
     component |-> postTemplate,
     context |-> [slug |-> node.frontmatter.slug,
                  pageScripts |-> NoList]]

\* the body of the forEach: one createPage call
createPage(node) ==
    [path |-> node.frontmatter.slug,
     component |-> postTemplate,
     context |-> [slug |-> node.frontmatter.slug,
                  pageScripts |-> node.frontmatter.pageScripts]]

\* createPages with a loop that stops one edge early
createPagesSkipsLast(result) ==
    IF result.errors
    THEN [panicOnBuild |-> <<"Error while running GraphQL query.">>,
          createPage |-> <<>>]
    ELSE LET edges == result.data.allMarkdownRemark.edges
         IN  [panicOnBuild |-> <<>>,
              createPage |-> [i \in 1..(Len(edges) - 1) |->
                                 createPage(edges[i].node)]]

\* createPages adding to the calls of the build before
createPagesKeepsOld(result) ==
    LET edges == result.data.allMarkdownRemark.edges
        old == IF last.valid THEN last.output.calls ELSE <<>>
    IN  IF result.errors
        THEN [panicOnBuild |-> <<"Error while running GraphQL query.">>,
              createPage |-> <<>>]
        ELSE [panicOnBuild |-> <<>>,
              createPage |-> old \o [i \in DOMAIN edges |->
                                        createPage(edges[i].node)]]

\* createPages walking the edges last to first
createPagesReversed(result) ==
    IF result.errors
    THEN [panicOnBuild |-> <<"Error while running GraphQL query.">>,
          createPage |-> <<>>]
    ELSE LET edges == result.data.allMarkdownRemark.edges
         IN  [panicOnBuild |-> <<>>,
              createPage |-> [i \in DOMAIN edges |->
                                 createPage(edges[Len(edges) + 1 - i].node)]]

\* createPages without the return after reporter.panicOnBuild
createPagesNoReturn(result) ==
    LET edges == result.data.allMarkdownRemark.edges
    IN  [panicOnBuild |-> IF result.errors
                          THEN <<"Error while running GraphQL query.">>
                          ELSE <<>>,
         createPage |-> [i \in DOMAIN edges |-> createPage(edges[i].node)]]

\* createPages with a loop that visits every edge twice
createPagesTwice(result) ==
    IF result.errors
    THEN [panicOnBuild |-> <<"Error while running GraphQL query.">>,
          createPage |-> <<>>]
    ELSE LET edges == result.data.allMarkdownRemark.edges
         IN  [panicOnBuild |-> <<>>,
              createPage |-> [i \in 1..(2 * Len(edges)) |->
                                 createPage(edges[(i + 1) \div 2].node)]]

\* createPages with a loop that starts at the second edge
createPagesSkipsFirst(result) ==
    IF result.errors
    THEN [panicOnBuild |-> <<"Error while running GraphQL query.">>,
          createPage |-> <<>>]
    ELSE LET edges == result.data.allMarkdownRemark.edges
         IN  [panicOnBuild |-> <<>>,
              createPage |-> [i \in 1..(Len(edges) - 1) |->
                                 createPage(edges[i + 1].node)]]

\* exports.createPages, given the result of its query: the calls it makes
createPages(result) ==
    IF result.errors
    THEN [panicOnBuild |-> <<"Error while running GraphQL query.">>,
          createPage |-> <<>>]
    ELSE LET edges == result.data.allMarkdownRemark.edges
         IN  [panicOnBuild |-> <<>>,
              createPage |-> [i \in DOMAIN edges |-> createPage(edges[i].node)]]

\* The framework keeps one page per path: a createPage call for a path that
\* is registered replaces the page.  Registry(cs, lo, hi) is the registry
\* after the calls cs[lo..hi], made in order.
RECURSIVE Registry(_, _, _)
Registry(cs, lo, hi) ==
    IF lo > hi THEN <<>>
    ELSE IF lo = hi THEN cs[lo].path :> cs[lo]
    ELSE LET mid == (lo + hi) \div 2
         IN  Registry(cs, mid + 1, hi) @@ Registry(cs, lo, mid)

(***************************************************************************)
(* Values of the rendering                                                 *)
(***************************************************************************)
Undefined == "undefined"

\* JavaScript truthiness of a string, null or undefined
Truthy(x) == x \notin {Null, Undefined, ""}

\* date(formatString: f): the day, month and year of the date, laid out by f
FormatDate(date, formatString) ==
    [formatString |-> formatString,
     DD |-> date % 100,
     MM |-> (date \div 100) % 100,
     YYYY |-> date \div 10000]

\* excerpt(pruneLength: n) of a node
Excerpt(node, pruneLength) ==
    "<first " \o ToString(pruneLength) \o " of " \o node.id \o ">"

\* hero { childImageSharp { ... } }: null for a Post without hero
NullImage == [null |-> TRUE]

HeroImage(hero, width, height) ==
    IF hero = Null THEN NullImage
    ELSE [null |-> FALSE,
          childImageSharp |-> [file |-> hero, width |-> width, height |-> height]]

\* a page or card whose render threw a TypeError
RenderError == [error |-> TRUE]

(***************************************************************************)
(* The layout                                                              *)
(***************************************************************************)
\* the layout with the title prop as the document title, whatever it is
DefaultLayoutNoDefault(title, commit) ==
    [title |-> title,
     footer |-> <<"Build",
                  SubSeq(commit.gitCommit.hash, 1,
                         Min(HashChars, Len(commit.gitCommit.hash))),
                  commit.gitCommit.date>>]

\* the layout with the whole hash in the footer
DefaultLayoutWholeHash(title, commit) ==
    [title |-> IF Truthy(title) THEN title ELSE SiteTitle,
     footer |-> <<"Build", commit.gitCommit.hash, commit.gitCommit.date>>]

\* src/layouts/default.js: the document title and the footer
DefaultLayout(title, commit) ==
    [title |-> IF Truthy(title) THEN title ELSE SiteTitle,
     footer |-> <<"Build",
                  SubSeq(commit.gitCommit.hash, 1,
                         Min(HashChars, Len(commit.gitCommit.hash))),
                  commit.gitCommit.date>>]

\* the layout's static query
CommitQuery(c) == [gitCommit |-> [date |-> c.date, hash |-> c.hash]]

\* the ThemeToggler of the layout: the theme the click handler passes to
\* toggleTheme, toggleTheme(theme === "light" ? 'dark' : 'light')
onClick(t) == IF t = "light" THEN "dark" ELSE "light"

\* the icon of the toggler: alt and src of the img
alt(t) == IF t = "dark" THEN "light mode" ELSE "dark-mode"

src(t) == IF t = "dark" THEN "/layout/light-mode-48.png"
          ELSE "/layout/dark-mode-48.png"

\* the values the toggler's theme can hold: not yet set, "light", "dark"
Themes == {Null, "light", "dark"}

(***************************************************************************)
(* The listing                                                             *)
(***************************************************************************)
ListingVersions == {"src/pages/index.js", "unnamed/part_000"}

\* the listing's query without its limit
MainQueryNoLimit(version, ns) ==
    LET found == SortByDateDesc(ns)
        Edge(n) ==
            IF version = "src/pages/index.js"
            THEN [node |->
                    [frontmatter |->
                        [title |-> n.frontmatter.title,
                         slug |-> n.frontmatter.slug,
                         date |-> FormatDate(n.frontmatter.date, "DD-MMM yyyy")],
                     excerpt |-> Excerpt(n, 240),
                     timeToRead |-> n.timeToRead]]
            ELSE [node |->
                    [frontmatter |->
                        [title |-> n.frontmatter.title,
                         slug |-> n.frontmatter.slug,
                         date |-> FormatDate(n.frontmatter.date, "DD-MMM yyyy"),
                         hero |-> HeroImage(n.frontmatter.hero, 430, 150)],
                     excerpt |-> Excerpt(n, 230),
                     timeToRead |-> n.timeToRead]]
    IN  [allMarkdownRemark |-> [edges |-> [i \in DOMAIN found |-> Edge(found[i])]]]

\* the listing's query: the version with images also selects the hero
MainQuery(version, ns) ==
    LET found == Limit(SortByDateDesc(ns), QueryLimit)
        Edge(n) ==
            IF version = "src/pages/index.js"
            THEN [node |->
                    [frontmatter |->
                        [title |-> n.frontmatter.title,
                         slug |-> n.frontmatter.slug,
                         date |-> FormatDate(n.frontmatter.date, "DD-MMM yyyy")],
                     excerpt |-> Excerpt(n, 240),
                     timeToRead |-> n.timeToRead]]
            ELSE [node |->
                    [frontmatter |->
                        [title |-> n.frontmatter.title,
                         slug |-> n.frontmatter.slug,
                         date |-> FormatDate(n.frontmatter.date, "DD-MMM yyyy"),
                         hero |-> HeroImage(n.frontmatter.hero, 430, 150)],
                     excerpt |-> Excerpt(n, 230),
                     timeToRead |-> n.timeToRead]]
    IN  [allMarkdownRemark |-> [edges |-> [i \in DOMAIN found |-> Edge(found[i])]]]

\* getImage(hero) of gatsby-plugin-image: undefined for null
getImage(hero) == IF hero.null THEN Undefined ELSE hero.childImageSharp.file

\* PostItem: one summary card
PostItem(version, props) ==
    IF version = "src/pages/index.js"
    THEN [error |-> FALSE,
          title |-> props.title,
          date |-> props.date,
          readingTime |-> props.timeToRead,
          excerpt |-> props.excerpt,
          links |-> <<[title |-> props.title, to |-> props.slug]>>,
          image |-> Undefined]
    ELSE [error |-> FALSE,
          title |-> props.title,
          date |-> props.date,
          readingTime |-> props.timeToRead,
          excerpt |-> props.excerpt,
          links |-> <<[title |-> props.title, to |-> props.slug],
                      [title |-> props.title, to |-> props.slug]>>,
          image |-> getImage(props.hero)]

\* Main mapping the edges last to first
MainReversed(version, query) ==
    LET edges == query.allMarkdownRemark.edges
        Data(edge) ==
            [excerpt |-> edge.node.excerpt, timeToRead |-> edge.node.timeToRead]
                @@ edge.node.frontmatter
    IN  [i \in DOMAIN edges |->
            [key |-> Data(edges[Len(edges) + 1 - i]).slug,
             card |-> PostItem(version, Data(edges[Len(edges) + 1 - i]))]]

\* Main: edges.map(edge => <PostItem key={data.slug} {...data} />)
Main(version, query) ==
    LET edges == query.allMarkdownRemark.edges
        Data(edge) ==
            [excerpt |-> edge.node.excerpt, timeToRead |-> edge.node.timeToRead]
                @@ edge.node.frontmatter
    IN  [i \in DOMAIN edges |->
            [key |-> Data(edges[i]).slug,
             card |-> PostItem(version, Data(edges[i]))]]

\* IndexPage: the layout without title around Main
IndexPage(version, ns, c) ==
    [layout |-> DefaultLayout(Undefined, CommitQuery(c)),
     posts |-> Main(version, MainQuery(version, ns))]

(***************************************************************************)
(* The post template                                                       *)
(***************************************************************************)
PostTemplateVersions ==
    {"src/templates/post.js", "unnamed/part_004", "unnamed/part_005",
     "unnamed/part_006", "unnamed/part_007"}

\* markdownRemark(frontmatter: { slug: { eq: $slug } }) finds the first node,
\* in discovery order, with the slug.  FirstBySlug(ns, lo, hi) maps each slug
\* of ns[lo..hi] to that node.
RECURSIVE FirstBySlug(_, _, _)
FirstBySlug(ns, lo, hi) ==
    IF lo > hi THEN <<>>
    ELSE IF lo = hi THEN ns[lo].frontmatter.slug :> ns[lo]
    ELSE LET mid == (lo + hi) \div 2
         IN  FirstBySlug(ns, lo, mid) @@ FirstBySlug(ns, mid + 1, hi)

NullNode == [null |-> TRUE]

\* the page query of each version, on the node found for $slug
PostQuery(version, n) ==
    LET date == FormatDate(n.frontmatter.date, "DD MMM, YYYY")
        slug == n.frontmatter.slug
        title == n.frontmatter.title
        scripts == SelectSrc(n.frontmatter.pageScripts)
    IN  CASE version \in {"src/templates/post.js", "unnamed/part_007"} ->
               [null |-> FALSE, html |-> n.html,
                frontmatter |-> [date |-> date, slug |-> slug, title |-> title]]
          [] version = "unnamed/part_004" ->
               [null |-> FALSE, html |-> n.html,
                frontmatter |-> [date |-> date, slug |-> slug, title |-> title,
                                 pageScripts |-> scripts]]
          [] version = "unnamed/part_006" ->
               [null |-> FALSE, html |-> n.html, excerpt |-> Excerpt(n, 250),
                frontmatter |-> [date |-> date, slug |-> slug, title |-> title,
                                 pageScripts |-> scripts]]
          [] version = "unnamed/part_005" ->
               [null |-> FALSE, html |-> n.html,
                frontmatter |-> [date |-> date, slug |-> slug, title |-> title,
                                 hero |-> HeroImage(n.frontmatter.hero, 900, 300)]]

markdownRemark(version, found, slug) ==
    [markdown |-> IF slug \in DOMAIN found
                  THEN PostQuery(version, found[slug])
                  ELSE NullNode]

\* script.async || false, script.defer || false
OrFalse(script, attribute) ==
    IF attribute \in DOMAIN script THEN script[attribute] ELSE FALSE

\* a template that renders no script tag
ScriptTagsNone(pageScripts) == <<>>

\* {pageScripts && pageScripts.map((script, index) => <script ... />)}
ScriptTags(pageScripts) ==
    IF pageScripts.null THEN <<>>
    ELSE [i \in DOMAIN pageScripts.list |->
            [key |-> i - 1,
             src |-> pageScripts.list[i].src,
             async |-> OrFalse(pageScripts.list[i], "async"),
             defer |-> OrFalse(pageScripts.list[i], "defer")]]

\* src/templates/post.js: the layout without title, no script tags
PostPlain(data, c) ==
    IF data.markdown.null THEN RenderError
    ELSE [error |-> FALSE,
          layout |-> DefaultLayout(Undefined, CommitQuery(c)),
          scripts |-> <<>>,
          meta |-> <<>>,
          h1 |-> data.markdown.frontmatter.title,
          h4 |-> data.markdown.frontmatter.date,
          content |-> data.markdown.html,
          image |-> Undefined]

\* part_007: as above, with the layout given the title
PostTitled(data, c) ==
    IF data.markdown.null THEN RenderError
    ELSE [error |-> FALSE,
          layout |-> DefaultLayout(data.markdown.frontmatter.title, CommitQuery(c)),
          scripts |-> <<>>,
          meta |-> <<>>,
          h1 |-> data.markdown.frontmatter.title,
          h4 |-> data.markdown.frontmatter.date,
          content |-> data.markdown.html,
          image |-> Undefined]

\* part_004: the title and the script tags
PostScripts(data, c) ==
    IF data.markdown.null THEN RenderError
    ELSE [error |-> FALSE,
          layout |-> DefaultLayout(data.markdown.frontmatter.title, CommitQuery(c)),
          scripts |-> ScriptTags(data.markdown.frontmatter.pageScripts),
          meta |-> <<>>,
          h1 |-> data.markdown.frontmatter.title,
          h4 |-> data.markdown.frontmatter.date,
          content |-> data.markdown.html,
          image |-> Undefined]

\* part_006: the title, the script tags and the meta tags
PostMeta(data, c) ==
    IF data.markdown.null THEN RenderError
    ELSE LET title == data.markdown.frontmatter.title
             excerpt == data.markdown.excerpt
         IN  [error |-> FALSE,
              layout |-> DefaultLayout(title, CommitQuery(c)),
              scripts |-> ScriptTags(data.markdown.frontmatter.pageScripts),
              meta |-> <<[name |-> "title", content |-> title],
                         [name |-> "description", content |-> excerpt],
                         [name |-> "og:title", content |-> title],
                         [name |-> "og:description", content |-> excerpt],
                         [name |-> "og:type", content |-> "website"],
                         [name |-> "og:url",
                          content |-> "https://avwie.github.io"
                                         \o data.markdown.frontmatter.slug]>>,
              h1 |-> title,
              h4 |-> data.markdown.frontmatter.date,
              content |-> data.markdown.html,
              image |-> Undefined]

\* part_005: const image = hero.childImageSharp.fixed, a TypeError on null
PostHero(data, c) ==
    IF data.markdown.null THEN RenderError
    ELSE IF data.markdown.frontmatter.hero.null THEN RenderError
    ELSE [error |-> FALSE,
          layout |-> DefaultLayout(Undefined, CommitQuery(c)),
          scripts |-> <<>>,
          meta |-> <<>>,
          h1 |-> data.markdown.frontmatter.title,
          h4 |-> data.markdown.frontmatter.date,
          content |-> data.markdown.html,
          image |-> data.markdown.frontmatter.hero.childImageSharp]

Post(version, data, c) ==
    CASE version = "src/templates/post.js" -> PostPlain(data, c)
      [] version = "unnamed/part_007" -> PostTitled(data, c)
      [] version = "unnamed/part_004" -> PostScripts(data, c)
      [] version = "unnamed/part_006" -> PostMeta(data, c)
      [] version = "unnamed/part_005" -> PostHero(data, c)

\* the pages of the registry rendered from the query of one fixed slug
RenderPagesOneSlug(version, registry, ns, c) ==
    LET found == FirstBySlug(ns, 1, Len(ns))
    IN  [p \in DOMAIN registry |->
            Post(version, markdownRemark(version, found, ns[1].frontmatter.slug), c)]

\* the pages of the registry: for each binding the template, on its page
\* query run with the binding's context
RenderPages(version, registry, ns, c) ==
    LET found == FirstBySlug(ns, 1, Len(ns))
    IN  [p \in DOMAIN registry |->
            Post(version, markdownRemark(version, found, registry[p].context.slug), c)]

(***************************************************************************)
(* The feed                                                                *)
(***************************************************************************)
\* the feed's queries: the site metadata, and every node by date, no limit
FeedQuery(ns) ==
    LET found == SortByDateDesc(ns)
    IN  [site |-> [siteMetadata |-> [title |-> SiteTitle, siteUrl |-> siteUrl]],
         allMarkdownRemark |->
            [nodes |-> [i \in DOMAIN found |->
                [excerpt |-> Excerpt(found[i], 140),
                 html |-> found[i].html,
                 frontmatter |-> [title |-> found[i].frontmatter.title,
                                  date |-> found[i].frontmatter.date,
                                  slug |-> found[i].frontmatter.slug]]]]]

\* serialize: Object.assign({}, node.frontmatter, {...})
serialize(query) ==
    LET ns == query.allMarkdownRemark.nodes
        Item(node) ==
            [description |-> node.excerpt,
             date |-> node.frontmatter.date,
             url |-> query.site.siteMetadata.siteUrl \o node.frontmatter.slug,
             guid |-> query.site.siteMetadata.siteUrl \o node.frontmatter.slug,
             custom_elements |-> <<[content_encoded |-> node.html]>>]
                @@ node.frontmatter
    IN  [i \in DOMAIN ns |-> Item(ns[i])]

(***************************************************************************)
(* The state machine of a build                                            *)
(***************************************************************************)
NoBuild == [valid |-> FALSE]

Init ==
    /\ nodes \in ContentDirectories(MaxPosts)
    /\ gitCommit \in Commits
    /\ pc = "sourced"
    /\ errors = FALSE
    /\ calls = <<>>
    /\ pages = <<>>
    /\ panics = <<>>
    /\ index = <<>>
    /\ html = <<>>
    /\ feed = <<>>
    /\ last = NoBuild
    /\ theme = Null
    /\ clicked = <<>>

CreatePages ==
    /\ pc = "sourced"
    /\ \E failed \in BOOLEAN :
         LET result == [errors |-> failed,
                        data |-> [allMarkdownRemark |->
                                     [edges |-> CreatePagesQuery(nodes)]]]
             done == createPages(result)
         IN  /\ errors' = failed
             /\ calls' = done.createPage
             /\ panics' = done.panicOnBuild
             /\ pages' = Registry(done.createPage, 1, Len(done.createPage))
             /\ pc' = IF done.panicOnBuild # <<>> THEN "panicked" ELSE "created"
    /\ UNCHANGED <<nodes, gitCommit, index, html, feed, last, theme, clicked>>

\* RenderSite with a serializer that assigns into node.frontmatter instead
\* of into a new object
RenderSiteAssignsInPlace ==
    /\ pc = "created"
    /\ index' = [v \in ListingVersions |-> IndexPage(v, nodes, gitCommit)]
    /\ html' = [v \in PostTemplateVersions |->
                  RenderPages(v, pages, nodes, gitCommit)]
    /\ feed' = serialize(FeedQuery(nodes))
    /\ pc' = "built"
    /\ nodes' = [i \in DOMAIN nodes |->
                   [nodes[i] EXCEPT !.frontmatter =
                       [url |-> siteUrl \o nodes[i].frontmatter.slug,
                        guid |-> siteUrl \o nodes[i].frontmatter.slug]
                           @@ nodes[i].frontmatter]]
    /\ UNCHANGED <<gitCommit, errors, calls, pages, panics, last, theme, clicked>>

\* queries run, pages rendered, feed written
RenderSite ==
    /\ pc = "created"
    /\ index' = [v \in ListingVersions |-> IndexPage(v, nodes, gitCommit)]
    /\ html' = [v \in PostTemplateVersions |->
                  RenderPages(v, pages, nodes, gitCommit)]
    /\ feed' = serialize(FeedQuery(nodes))
    /\ pc' = "built"
    /\ UNCHANGED <<nodes, gitCommit, errors, calls, pages, panics, last, theme, clicked>>

\* what a completed build has produced
Output == [calls |-> calls, pages |-> pages, index |-> index,
           html |-> html, feed |-> feed]

\* the next build starts from nothing
StartBuild ==
    /\ pc \in {"built", "panicked"}
    /\ last' = IF pc = "built"
               THEN [valid |-> TRUE, nodes |-> nodes, gitCommit |-> gitCommit,
                     output |-> Output]
               ELSE last
    /\ pc' = "sourced"
    /\ errors' = FALSE
    /\ calls' = <<>>
    /\ pages' = <<>>
    /\ panics' = <<>>
    /\ index' = <<>>
    /\ html' = <<>>
    /\ feed' = <<>>
    /\ UNCHANGED <<nodes, gitCommit, theme, clicked>>

\* before the queries of a build run: a commit that leaves the Markdown files
\* alone has become the latest
Commit ==
    /\ pc = "sourced"
    /\ gitCommit' \in Commits \ {gitCommit}
    /\ UNCHANGED <<nodes, pc, errors, calls, pages, panics, index, html, feed, last,
                   theme, clicked>>

\* before the queries of a build run: the same files are discovered in
\* another order
Rediscover ==
    /\ pc = "sourced"
    /\ \E i, j \in DOMAIN nodes :
         /\ i < j
         /\ nodes' = [nodes EXCEPT ![i] = nodes[j], ![j] = nodes[i]]
    /\ UNCHANGED <<gitCommit, pc, errors, calls, pages, panics, index, html, feed, last,
                   theme, clicked>>

Next == CreatePages \/ RenderSite \/ StartBuild \/ Commit \/ Rediscover

Spec == Init /\ [][Next]_vars

\* Content directories around the query limit: QueryLimit - 1 generated
\* files after the files taken from the corpus.
InitBulk ==
    /\ \E d \in ContentDirectories(MaxLead) :
         nodes = d \o BulkNodes(QueryLimit - 1)
    /\ gitCommit = HeadCommit
    /\ pc = "sourced"
    /\ errors = FALSE
    /\ calls = <<>>
    /\ pages = <<>>
    /\ panics = <<>>
    /\ index = <<>>
    /\ html = <<>>
    /\ feed = <<>>
    /\ last = NoBuild
    /\ theme = Null
    /\ clicked = <<>>

NextBulk == CreatePages \/ RenderSite \/ StartBuild

SpecBulk == InitBulk /\ [][NextBulk]_vars

\* A built site in the browser: the build of a content directory has
\* completed, a page is shown and the toggler holds a theme.
InitBrowser ==
    /\ nodes \in ContentDirectories(MaxLead)
    /\ gitCommit \in Commits
    /\ pc = "built"
    /\ errors = FALSE
    /\ calls = createPages([errors |-> FALSE,
                            data |-> [allMarkdownRemark |->
                                         [edges |-> CreatePagesQuery(nodes)]]]).createPage
    /\ pages = Registry(calls, 1, Len(calls))
    /\ panics = <<>>
    /\ index = [v \in ListingVersions |-> IndexPage(v, nodes, gitCommit)]
    /\ html = [v \in PostTemplateVersions |->
                 RenderPages(v, pages, nodes, gitCommit)]
    /\ feed = serialize(FeedQuery(nodes))
    /\ last = NoBuild
    /\ theme \in Themes
    /\ clicked = <<>>

\* a click on the toggler: toggleTheme sets the theme to its argument
Click ==
    /\ pc = "built"
    /\ theme' = onClick(theme)
    /\ clicked' = IF Len(clicked) < 2 THEN Append(clicked, theme)
                  ELSE <<clicked[2], theme>>
    /\ UNCHANGED <<nodes, gitCommit, pc, errors, calls, pages, panics, index, html,
                   feed, last>>

NextBrowser == Click

SpecBrowser == InitBrowser /\ [][NextBrowser]_vars
(***************************************************************************)
(* Properties                                                              *)
(***************************************************************************)
Slugs(ns) == {ns[i].frontmatter.slug : i \in DOMAIN ns}

Paths(cs) == {cs[i].path : i \in DOMAIN cs}

DistinctSlugs(ns) == Cardinality(Slugs(ns)) = Len(ns)

\* the nodes the page builder's and the listing's query return, in order
Found == Limit(SortByDateDesc(nodes), QueryLimit)

\* one createPage call for each Post, one page at each Post's slug, no path
\* called for or registered twice
OnePagePerPost ==
    /\ Len(calls) = Len(nodes)
    /\ Cardinality(Paths(calls)) = Len(calls)
    /\ Paths(calls) = Slugs(nodes)
    /\ DOMAIN pages = Slugs(nodes)
    /\ Cardinality(DOMAIN pages) = Len(nodes)
    /\ \A p \in DOMAIN pages : pages[p].path = p

CardDate(item) ==
    item.card.date.YYYY * 10000 + item.card.date.MM * 100 + item.card.date.DD

\* C2: in every version of the listing the cards are in date-descending
\* order, whatever the order the Posts were discovered in, and card i is the
\* card of edge i of the sorted query.
C2_ListingByDateDesc ==
    pc = "built" =>
        \A v \in ListingVersions :
            LET posts == index[v].posts
                edges == MainQuery(v, nodes).allMarkdownRemark.edges
            IN  /\ Len(posts) = Len(edges)
                /\ \A i \in DOMAIN posts :
                     /\ posts[i].key = edges[i].node.frontmatter.slug
                     /\ posts[i].card.date = edges[i].node.frontmatter.date
                /\ \A i \in 1..(Len(posts) - 1) :
                     CardDate(posts[i]) >= CardDate(posts[i + 1])

\* C2's case: Posts discovered with the dates 2021, 2023, 2022 are listed as
\* 2023, 2022, 2021
C2_Witness ==
    /\ pc = "built"
    /\ Len(nodes) = 3
    /\ [i \in 1..3 |-> nodes[i].frontmatter.date] = <<20210101, 20230101, 20220101>>
    /\ \A v \in ListingVersions :
         [i \in 1..3 |-> index[v].posts[i].card.date.YYYY] = <<2023, 2022, 2021>>

\* C3: when the page builder's query returns errors, reporter.panicOnBuild
\* is called once, createPage is never called, no page is registered and
\* nothing is rendered.
C3_QueryErrorsAbort ==
    errors =>
        /\ pc = "panicked"
        /\ Len(panics) = 1
        /\ calls = <<>>
        /\ pages = <<>>
        /\ index = <<>> /\ html = <<>> /\ feed = <<>>

\* C3's case: the query failed on a directory that holds Posts
C3_Witness == errors /\ pc = "panicked" /\ Len(nodes) >= 2

\* the node the page query of a page finds: the first with the slug
First == FirstBySlug(nodes, 1, Len(nodes))

\* C4 as stated: a Post that lacks a required field (here the title) makes
\* the build fail; it is not emitted as a page or as a card with the field
\* missing.
C4_MissingFieldFails ==
    (\E i \in DOMAIN nodes : nodes[i].frontmatter.title = Null) =>
        /\ pc \notin {"created", "built"}
        /\ \A p \in DOMAIN pages : First[p].frontmatter.title # Null
        /\ pc = "built" =>
             \A v \in ListingVersions : \A i \in DOMAIN index[v].posts :
                 index[v].posts[i].card.title # Null

\* the versions of the post template C5 names
ScriptVersions == {"src/templates/post.js", "unnamed/part_004", "unnamed/part_006"}

\* C5 as stated: the post template renders one script tag per entry of the
\* Post's pageScripts, in list order and with the entry's src, and none (and
\* no failure) for a Post without pageScripts.
C5_ScriptTagPerEntry ==
    pc = "built" =>
        \A v \in ScriptVersions : \A p \in DOMAIN pages :
            LET scripts == First[p].frontmatter.pageScripts
                page == html[v][p]
            IN  /\ ~page.error
                /\ Len(page.scripts) = Len(scripts.list)
                /\ \A i \in DOMAIN page.scripts :
                     page.scripts[i].src = scripts.list[i].src

\* C6 as stated: a Post with no hero image renders without error in the
\* listing card and in the post template.
C6_NoHeroRenders ==
    pc = "built" =>
        /\ \A v \in ListingVersions : \A i \in DOMAIN index[v].posts :
             ~index[v].posts[i].card.error
        /\ \A v \in PostTemplateVersions : \A p \in DOMAIN pages :
             First[p].frontmatter.hero = Null => ~html[v][p].error

\* the files of a directory, whatever their order
Files(ns) == {ns[i] : i \in DOMAIN ns}

EdgesOf(p) == {i \in DOMAIN Found : Found[i].frontmatter.slug = p}

CallsFor(p) == {i \in DOMAIN calls : calls[i].path = p}

Last(S) == CHOOSE i \in S : \A j \in S : j <= i

\* C8: Posts that share a slug raise no error and get one createPage call
\* each; one page is registered at the slug, with the context (slug,
\* pageScripts) of the last of them in the date-descending iteration.
C8_SharedSlugLastWins ==
    pc \in {"created", "built"} =>
        /\ panics = <<>>
        /\ Len(calls) = Len(Found)
        /\ DOMAIN pages = Slugs(Found)
        /\ \A p \in Slugs(Found) :
             /\ Cardinality(CallsFor(p)) = Cardinality(EdgesOf(p))
             /\ pages[p].path = p
             /\ pages[p].context =
                  [slug |-> p,
                   pageScripts |->
                      SelectSrc(Found[Last(EdgesOf(p))].frontmatter.pageScripts)]

\* C8's case: f4.md (2022, one script) and f1.md (2021, no pageScripts) share
\* the slug /a; f1.md comes last and its context is registered
C8_Witness ==
    /\ pc = "created"
    /\ Len(nodes) = 2
    /\ Slugs(nodes) = {"/a"}
    /\ Len(calls) = 2
    /\ DOMAIN pages = {"/a"}
    /\ pages["/a"].context.pageScripts.null

\* C9 as stated: every binding has the post template and a context whose
\* slug is the binding's path and whose pageScripts is the pageScripts of the
\* Post it was created from.
C9_ContextIsFrontmatter ==
    pc \in {"created", "built"} =>
        /\ Len(calls) = Len(Found)
        /\ \A i \in DOMAIN calls :
             /\ calls[i].component = postTemplate
             /\ calls[i].context.slug = calls[i].path
             /\ calls[i].context.pageScripts = Found[i].frontmatter.pageScripts

\* the entries declare nothing but src
OnlySrc(pageScripts) ==
    \A i \in DOMAIN pageScripts.list : DOMAIN pageScripts.list[i] = {"src"}

\* C9, amended: every binding has the post template and a context whose slug
\* is the binding's path and whose pageScripts holds, in order, the src of
\* each entry of the pageScripts of the Post it was created from (absent when
\* the Post has none); it is the Post's pageScripts when the entries declare
\* nothing but src.
C9_ContextOfPost ==
    pc \in {"created", "built"} =>
        /\ Len(calls) = Len(Found)
        /\ \A i \in DOMAIN calls :
             LET scripts == Found[i].frontmatter.pageScripts
                 context == calls[i].context
             IN  /\ calls[i].component = postTemplate
                 /\ calls[i].path = Found[i].frontmatter.slug
                 /\ context.slug = calls[i].path
                 /\ context.pageScripts.null = scripts.null
                 /\ Len(context.pageScripts.list) = Len(scripts.list)
                 /\ \A k \in DOMAIN scripts.list :
                      context.pageScripts.list[k] = [src |-> scripts.list[k].src]
                 /\ OnlySrc(scripts) => context.pageScripts = scripts

\* C9's case: a binding made from a Post with two scripts
C9_Witness ==
    /\ pc = "created"
    /\ \E i \in DOMAIN calls :
         /\ Len(calls[i].context.pageScripts.list) = 2
         /\ Len(Found[i].frontmatter.pageScripts.list) = 2

\* C10: every version of the listing renders one card per Post its query
\* returns, the QueryLimit latest at most, in one list; card i shows the
\* title, the date, the reading time and an excerpt of the Post of edge i
\* and every link of it leads to that Post's slug.
C10_CardPerPost ==
    pc = "built" =>
        \A v \in ListingVersions :
            LET posts == index[v].posts
                found == Found
            IN  /\ Len(posts) = Min(Len(nodes), QueryLimit)
                /\ \A i \in DOMAIN posts :
                     LET card == posts[i].card
                         post == found[i]
                     IN  /\ ~card.error
                         /\ card.title = post.frontmatter.title
                         /\ card.date = FormatDate(post.frontmatter.date, "DD-MMM yyyy")
                         /\ card.readingTime = post.timeToRead
                         /\ card.excerpt \in {Excerpt(post, 230), Excerpt(post, 240)}
                         /\ card.links # <<>>
                         /\ \A k \in DOMAIN card.links :
                              card.links[k].to = post.frontmatter.slug

\* C10's case: more Posts than QueryLimit, and QueryLimit cards
C10_Witness ==
    /\ pc = "built"
    /\ Len(nodes) > QueryLimit
    /\ \A v \in ListingVersions : Len(index[v].posts) = QueryLimit

\* the Posts with slug p
PostsAt(p) == {i \in DOMAIN nodes : nodes[i].frontmatter.slug = p}

\* a page shows the title, the date and the HTML body of node n
Shows(page, n) ==
    /\ page.h1 = n.frontmatter.title
    /\ page.h4 = FormatDate(n.frontmatter.date, "DD MMM, YYYY")
    /\ page.content = n.html

\* C11: every generated page is rendered from the template's own query by
\* the context slug, which is the page's path: a page that renders shows the
\* title, the date and the HTML body of a Post whose slug is the page's path,
\* and shows them of no Post with another slug; the template at
\* src/templates/post.js renders every page.
C11_PageShowsItsPost ==
    pc = "built" =>
        \A v \in PostTemplateVersions : \A p \in DOMAIN pages :
            /\ pages[p].context.slug = p
            /\ v = "src/templates/post.js" => ~html[v][p].error
            /\ ~html[v][p].error =>
                 /\ \E i \in PostsAt(p) : Shows(html[v][p], nodes[i])
                 /\ \A i \in DOMAIN nodes :
                      Shows(html[v][p], nodes[i]) => nodes[i].frontmatter.slug = p

\* C11's case: three pages at three slugs, each rendered with its own title
C11_Witness ==
    /\ pc = "built"
    /\ DOMAIN pages = {"/a", "/b", "/c"}
    /\ html["src/templates/post.js"]["/a"].h1 \in {"A", "A2"}
    /\ html["src/templates/post.js"]["/b"].h1 \in {"B", ""}
    /\ html["src/templates/post.js"]["/c"].content = "<html of f3.md>"

\* the fields of a Post's frontmatter, and the fields the feed serializer adds
FrontmatterFields == {"slug", "date", "title", "hero", "pageScripts"}

SerializedFields == {"description", "url", "guid", "custom_elements"}

\* every feed item is an object of its own: it carries the frontmatter fields
\* the feed query selected and the serializer's fields, while the frontmatter
\* of every Post has its own fields and none of the serializer's; every card
\* carries the excerpt and the reading time, which no frontmatter has
FreshObjects ==
    /\ \A i \in DOMAIN nodes : DOMAIN nodes[i].frontmatter = FrontmatterFields
    /\ \A i \in DOMAIN feed :
         DOMAIN feed[i] = {"title", "date", "slug"} \cup SerializedFields
    /\ \A v \in ListingVersions : \A i \in DOMAIN index[v].posts :
         {"excerpt", "readingTime"} \subseteq DOMAIN index[v].posts[i].card

\* C12: no step of a build (the page builder, the listing, the post template,
\* the feed serializer) modifies a Post record or its frontmatter; what they
\* produce is held in objects of their own.
C12_PostsImmutable ==
    [][(pc' # pc /\ pc' # "sourced") =>
          /\ nodes' = nodes
          /\ pc' = "built" => FreshObjects']_vars

\* C12's case: a second build has rendered cards, pages and feed items of
\* three Posts, which are the records the first build started from
C12_Witness ==
    /\ pc = "built"
    /\ last.valid
    /\ Len(nodes) = 3
    /\ Len(feed) = 3
    /\ Cardinality(DOMAIN pages) >= 2
    /\ FreshObjects

\* the createPage calls are those of one loop over the query result: call i
\* is the call for edge i
OneLoop ==
    LET found == Found
    IN  /\ Len(calls) = Len(found)
        /\ \A i \in DOMAIN calls : calls[i].path = found[i].frontmatter.slug

\* C13: the page build is a single pass.  createPage calls exist only after
\* the query has resolved without errors; they are made in one step, from no
\* calls to one call per edge in the order of the query result (date
\* descending), and stay as they are until the next build starts.
C13_SinglePass ==
    /\ [](calls # <<>> => (~errors /\ panics = <<>> /\ pc \in {"created", "built"}))
    /\ [](pc \in {"created", "built"} => OneLoop)
    /\ [][calls' # calls =>
             \/ calls = <<>> /\ pc = "sourced" /\ pc' = "created"
             \/ calls' = <<>> /\ pc' = "sourced"]_vars

\* C13's case: Posts discovered with the dates 2021, 2023, 2022 and the slugs
\* /a, /b, /c have their pages created in the order /b, /c, /a
C13_Witness ==
    /\ pc = "created"
    /\ [i \in DOMAIN nodes |-> nodes[i].frontmatter.slug] = <<"/a", "/b", "/c">>
    /\ [i \in DOMAIN nodes |-> nodes[i].frontmatter.date] = <<20210101, 20230101, 20220101>>
    /\ [i \in DOMAIN calls |-> calls[i].path] = <<"/b", "/c", "/a">>

\* the versions of the post template that pass title={title} to the layout
TitledVersions == {"unnamed/part_004", "unnamed/part_006", "unnamed/part_007"}

\* the document title of a page whose layout was given the title t
TitleFor(t) == IF t \in {Null, Undefined, ""} THEN SiteTitle ELSE t

\* C14: the document title is the title prop when it is a non-empty string
\* and "avwie's programming blog" when it is absent, null or empty.  A post
\* page of a version that passes title={title} has the Post's title as its
\* document title (the default when the Post has no title or an empty one);
\* the index page and the pages of the versions that pass no title have the
\* default.
C14_DocumentTitle ==
    pc = "built" =>
        /\ \A v \in ListingVersions : index[v].layout.title = SiteTitle
        /\ \A v \in PostTemplateVersions : \A p \in DOMAIN pages :
             ~html[v][p].error =>
                 html[v][p].layout.title =
                    IF v \in TitledVersions
                    THEN TitleFor(First[p].frontmatter.title)
                    ELSE SiteTitle

\* C14's case: pages of Posts with the title "A", with an empty title and
\* without title, titled "A" and twice by default by the version that passes
\* the title, and all by default by src/templates/post.js
C14_Witness ==
    /\ pc = "built"
    /\ [i \in DOMAIN nodes |-> nodes[i].frontmatter.title] = <<"A", "", Null>>
    /\ [i \in DOMAIN nodes |-> nodes[i].frontmatter.slug] = <<"/a", "/b", "/c">>
    /\ html["unnamed/part_006"]["/a"].layout.title = "A"
    /\ html["unnamed/part_006"]["/b"].layout.title = SiteTitle
    /\ html["unnamed/part_006"]["/c"].layout.title = SiteTitle
    /\ html["src/templates/post.js"]["/a"].layout.title = SiteTitle

\* s is the hash cut to its first HashChars characters
Abbreviates(s, hash) ==
    /\ Len(s) = (IF Len(hash) < HashChars THEN Len(hash) ELSE HashChars)
    /\ \A i \in DOMAIN s : s[i] = hash[i]

\* the footer shows the abbreviated hash and then the date of commit c
FooterOf(footer, c) ==
    /\ Len(footer) = 3
    /\ footer[1] = "Build"
    /\ Abbreviates(footer[2], c.hash)
    /\ footer[3] = c.date

\* C15: on the index page and on every post page the footer shows the first
\* HashChars characters of the latest commit's hash (the whole hash when it
\* is shorter) and then the commit's date; all pages of a build show the
\* same, whatever the Posts.
C15_FooterShowsCommit ==
    pc = "built" =>
        /\ \A v \in ListingVersions : FooterOf(index[v].layout.footer, gitCommit)
        /\ \A v \in PostTemplateVersions : \A p \in DOMAIN pages :
             ~html[v][p].error => FooterOf(html[v][p].layout.footer, gitCommit)

\* C15's case: a build at a commit with a hash of 9 characters shows 7 of
\* them on its pages, after a build at a commit with a hash of 4 characters
\* that showed the 4
C15_Witness ==
    /\ pc = "built"
    /\ Len(gitCommit.hash) = 9
    /\ Cardinality(DOMAIN pages) >= 2
    /\ \A p \in DOMAIN pages :
         html["src/templates/post.js"][p].layout.footer =
            <<"Build", <<"a", "1", "b", "2", "c", "3", "d">>, "2025-05-11">>
    /\ last.valid
    /\ Len(last.gitCommit.hash) = 4
    /\ last.output.index["src/pages/index.js"].layout.footer =
            <<"Build", <<"f", "0", "0", "d">>, "2025-05-12">>

\* the slugs the cards of a listing link to
Linked(posts) ==
    UNION { {posts[i].card.links[k].to : k \in DOMAIN posts[i].card.links} :
            i \in DOMAIN posts }

\* C16: in every version of the listing, the slugs the cards link to are the
\* paths the page builder has registered, so every link leads to a generated
\* page and every generated page is linked, for any number of Posts.
C16_LinksResolve ==
    pc = "built" =>
        \A v \in ListingVersions : Linked(index[v].posts) = DOMAIN pages

\* C16's case: one Post more than QueryLimit; the listing links to QueryLimit
\* slugs and they are the registered paths
C16_Witness ==
    /\ pc = "built"
    /\ Len(nodes) = QueryLimit + 1
    /\ Cardinality(DOMAIN pages) = QueryLimit
    /\ Linked(index["src/pages/index.js"].posts) = DOMAIN pages

\* C17 as stated: for any number of Posts the feed has one item for each Post,
\* in date-descending order, whose url and guid are siteUrl + slug, and a page
\* is registered at that slug.
C17_FeedItemsResolve ==
    pc = "built" =>
        LET sorted == SortByDateDesc(nodes)
        IN  /\ Len(feed) = Len(nodes)
            /\ \A i \in DOMAIN feed :
                 LET slug == sorted[i].frontmatter.slug
                 IN  /\ feed[i].url = siteUrl \o slug
                     /\ feed[i].guid = siteUrl \o slug
                     /\ slug \in DOMAIN pages
            /\ \A i \in 1..(Len(feed) - 1) : feed[i].date >= feed[i + 1].date

\* the versions of the post template that query pageScripts and render them
QueryingVersions == {"unnamed/part_004", "unnamed/part_006"}

\* the src of the entries of a list of script tags or of pageScripts entries
Srcs(s) == [i \in DOMAIN s |-> s[i].src]

\* the script tags of every page are those of the pageScripts in the page's
\* binding context, in order (none when the context has no pageScripts)
ScriptsAgree ==
    \A v \in QueryingVersions : \A p \in DOMAIN pages :
        /\ ~html[v][p].error
        /\ Srcs(html[v][p].scripts) = Srcs(pages[p].context.pageScripts.list)

\* C18 as stated: for every registered page, the scripts the page renders
\* (from the template's own query by slug) are the pageScripts of the page's
\* binding context.
C18_ScriptsAgreeWithContext == pc = "built" => ScriptsAgree

\* C18, amended: when no two Posts share a slug, for every registered page
\* the scripts the page renders (from the template's own query by slug) are
\* the pageScripts of the page's binding context.
C18_ScriptsOfDistinctSlugs ==
    (pc = "built" /\ DistinctSlugs(nodes)) => ScriptsAgree

\* C18's case: Posts with different slugs; the page of the Post with two
\* scripts has two in its context and renders the two
C18_Witness ==
    /\ pc = "built"
    /\ DistinctSlugs(nodes)
    /\ Len(nodes) = 3
    /\ "/b" \in DOMAIN pages
    /\ Srcs(pages["/b"].context.pageScripts.list) = <<"/s1.js", "/s2.js">>
    /\ Srcs(html["unnamed/part_006"]["/b"].scripts) = <<"/s1.js", "/s2.js">>

\* the bindings createPages makes when its query returns the edges in the
\* order given by the permutation f
CallsInOrder(edges, f) ==
    createPages([errors |-> FALSE,
                 data |-> [allMarkdownRemark |->
                              [edges |-> [i \in DOMAIN edges |-> edges[f[i]]]]]]).createPage

\* C19: for Posts with pairwise distinct slugs, the set of bindings (path,
\* template, context) the page builder makes, and the pages registered, are
\* the same in whatever order the query returns the Posts.
C19_OrderIndependent ==
    (pc \in {"created", "built"} /\ DistinctSlugs(nodes)) =>
        LET edges == CreatePagesQuery(nodes)
        IN  \A f \in Permutations(DOMAIN edges) :
                LET cs == CallsInOrder(edges, f)
                IN  /\ Files(cs) = Files(calls)
                    /\ Registry(cs, 1, Len(cs)) = pages

\* C19's case: three Posts with different slugs have their three bindings
\* made, and the bindings made in the reverse order are the same set
C19_Witness ==
    /\ pc = "created"
    /\ DistinctSlugs(nodes)
    /\ Len(calls) = 3
    /\ LET edges == CreatePagesQuery(nodes)
           cs == CallsInOrder(edges, [i \in 1..3 |-> 4 - i])
       IN  /\ cs # calls
           /\ Files(cs) = Files(calls)

\* the theme the toggler's icon advertises: the light-mode icon is shown
\* while the theme is "dark", the dark-mode icon otherwise
Advertised(t) == IF alt(t) = "light mode" THEN "light" ELSE "dark"

\* C20 as stated: from every theme the toggler can hold ("light", "dark" or
\* not yet set) a click moves to the theme the icon advertised, the theme is
\* "light" or "dark" after any click, and two consecutive clicks return to
\* the theme before them.
C20_ClickFollowsIcon ==
    /\ clicked # <<>> =>
         /\ theme \in {"light", "dark"}
         /\ theme = Advertised(clicked[Len(clicked)])
    /\ Len(clicked) = 2 => theme = clicked[1]

\* a Post declares async or defer on one of its pageScripts
Declares(n) ==
    \E k \in DOMAIN n.frontmatter.pageScripts.list :
        LET script == n.frontmatter.pageScripts.list[k]
        IN  \/ ("async" \in DOMAIN script /\ script.async)
            \/ ("defer" \in DOMAIN script /\ script.defer)

\* C21: every script tag the post template renders has async = false and
\* defer = false, whatever the frontmatter declares: the template's query
\* selects src only, so script.async and script.defer are undefined and fall
\* back to false.
C21_ScriptsNeitherAsyncNorDefer ==
    pc = "built" =>
        \A v \in PostTemplateVersions : \A p \in DOMAIN pages :
            ~html[v][p].error =>
                \A k \in DOMAIN html[v][p].scripts :
                    /\ html[v][p].scripts[k].async = FALSE
                    /\ html[v][p].scripts[k].defer = FALSE

\* C21's case: the Posts at /a and /b declare defer and async; their pages
\* render one and two script tags, none of them async or defer
C21_Witness ==
    /\ pc = "built"
    /\ DistinctSlugs(nodes)
    /\ {"/a", "/b"} \subseteq DOMAIN pages
    /\ Declares(First["/a"])
    /\ Declares(First["/b"])
    /\ html["unnamed/part_006"]["/a"].scripts =
          <<[key |-> 0, src |-> "/s3.js", async |-> FALSE, defer |-> FALSE]>>
    /\ html["unnamed/part_004"]["/b"].scripts =
          <<[key |-> 0, src |-> "/s1.js", async |-> FALSE, defer |-> FALSE],
            [key |-> 1, src |-> "/s2.js", async |-> FALSE, defer |-> FALSE]>>
====
